---- MODULE Spec2Model ----
(***************************************************************************)
(* cmenu (src/cmenu.c): an interactive line picker.  It reads candidate    *)
(* lines from standard input, filters them by a typed pattern, lets the    *)
(* user move a selection with the arrow keys and writes the chosen line    *)
(* to standard output.                                                     *)
(*                                                                         *)
(* C strings are modelled as sequences of bytes (0..255) without their     *)
(* terminator; buffers are sequences whose TLA+ index k+1 is the C index   *)
(* k.  MEMORY_MAX and PATTERN_MAX are the program's limits scaled down.    *)
(***************************************************************************)
EXTENDS Integers, Sequences, FiniteSets, TLC

(* ------------------------------ limits -------------------------------- *)

\* src/cmenu.c:11 is 1<<28 and src/cmenu.c:12 is 1<<12; scaled down here.
MEMORY_MAX == 200
PATTERN_MAX == 4

\* Longest standard input enumerated exhaustively by the session model.
MaxInput == 3
\* Longest standard input enumerated exhaustively by the parsing model.
MaxParseInput == 5
\* Longest pattern and candidate enumerated by the matcher model.
MaxMatchLen == 3
\* Largest terminal height reported by the window-size query.
MaxHeight == 3
\* Bytes of the arena of the allocator model, and the largest size and
\* count handed to alloc there.
MaxArena == 6
MaxAllocSize == 2
MaxAllocCount == 3

(* ----------------------------- key codes ------------------------------ *)

KEY_ESCAPE0 == 27
KEY_ESCAPE1 == 91
KEY_DOWN == 66
KEY_UP == 65
KEY_ENTER == 13
KEY_CTRLC == 3
KEY_BACKSPACE == 127

\* Bytes with a name in the C source.
NUL == 0
LF == 10
CR == 13
SPACE == 32
TILDE == 126
UPPER_A == 65
LOWER_A == 97

\* sizeof of the allocated types on an LP64 Linux build.
SizeofEntries == 32
SizeofTerminal == 68
SizeofPtr == 8
SizeofInt == 4
SizeofChar == 1

\* A byte of storage that was never written (alloc zeroes the first item only).
Indet == -1
\* The null pointer of selected_entry.
NULL == <<>>

(* ----------------------------- helpers -------------------------------- *)

Min(a, b) == IF a < b THEN a ELSE b

Take(s, n) == SubSeq(s, 1, Min(n, Len(s)))

\* Sequences over S of length 0..n.
SeqsUpTo(S, n) == UNION {[1..k -> S] : k \in 0..n}

\* n copies of byte c.
Rep(c, n) == [k \in 1..n |-> c]

\* *(s + k) for a C string s: the terminator sits right after the last byte.
CharAt(s, k) == IF k >= 1 /\ k <= Len(s) THEN s[k] ELSE NUL

\* strlen(buf + off) for C index off of buffer buf: the distance to the
\* first NUL (the end of buf is followed by one).
CStrLen(buf, off) ==
    CHOOSE n \in 0..Len(buf) :
        /\ CharAt(buf, off + n + 1) = NUL
        /\ \A m \in 0..(n - 1) : CharAt(buf, off + m + 1) # NUL

\* The C string that starts at C index off of buffer buf.
CStr(buf, off) == SubSeq(buf, off + 1, off + CStrLen(buf, off))

(* ------------------------------ matcher ------------------------------- *)

xtolower(c) == IF c - UPPER_A >= 0 /\ c - UPPER_A < 26 THEN c + LOWER_A - UPPER_A ELSE c

\* The while loop of is_match with both pointers at C index k-1.
RECURSIVE is_match_loop(_, _, _)
is_match_loop(pattern, str, k) ==
    IF CharAt(pattern, k) = xtolower(CharAt(str, k))
    THEN IF CharAt(pattern, k + 1) = NUL THEN TRUE
         ELSE IF CharAt(str, k + 1) = NUL THEN FALSE
         ELSE is_match_loop(pattern, str, k + 1)
    ELSE FALSE

is_match(pattern, str) ==
    IF CharAt(pattern, 1) = NUL THEN TRUE
    ELSE is_match_loop(pattern, str, 1)

(* ------------------------------ arena --------------------------------- *)

\* malloc succeeded: the arena spans MEMORY_MAX bytes (offsets from its base).
ArenaFull == [beg |-> 0, end |-> MEMORY_MAX]
\* malloc failed: zero-sized, but non-null.
ArenaEmpty == [beg |-> 16, end |-> 16]

\* alloc: ok is FALSE on the "out of memory" exit, else the arena with the
\* top cursor lowered.  Only the first item of the block is zeroed.
alloc(arena, size, count) ==
    LET available == arena.end - arena.beg
    IN  IF count > available \div size
        THEN [ok |-> FALSE, arena |-> arena]
        ELSE [ok |-> TRUE, arena |-> [arena EXCEPT !.end = @ - size * count]]

\* A byte that malloc's memory holds before anything is written to it.
Garbage == 170

\* alloc without its memset.
alloc_mem_NoMemset(mem, after, size, count) == mem

\* Lines 93-94: the bytes of the arena's region after alloc left the
\* cursors at after: memset(ptr, 0, size) for a non-zero count, with
\* offset k of the region at mem[k + 1].
alloc_mem(mem, after, size, count) ==
    IF count # 0
    THEN [k \in DOMAIN mem |->
             IF k - 1 \in after.end..(after.end + size - 1) THEN 0 ELSE mem[k]]
    ELSE mem

\* A fresh block of count items whose first item was zeroed by alloc.
FreshBlock(count) == [k \in 1..count |-> IF k = 1 THEN 0 ELSE Indet]

(* ---------------------------- read_entries ---------------------------- *)

\* fullread(0, buf, len): the bytes of standard input that fit in len.
fullread(input, len) == IF len > 0 THEN Take(input, len) ELSE <<>>

\* IsDelim with the '\r' label left out.
IsDelim_NoCR(c) == c = NUL \/ c = LF

\* The case labels of both switch statements.
IsDelim(c) == c = NUL \/ c = LF \/ c = CR

\* One iteration of the first loop (lines 155-164), at input_off.
count_step(input, input_off, st) ==
    IF IsDelim(input[input_off + 1])
    THEN [entry_len |-> 0,
          entries_len |-> st.entries_len + (IF st.entry_len > 0 THEN 1 ELSE 0)]
    ELSE [st EXCEPT !.entry_len = @ + 1]

\* The iterations of the first loop for input_off = lo .. hi-1, in order.
\* The range is halved, and the first half evaluated before the second is
\* entered (entry_len is never negative), only to keep the evaluation shallow.
RECURSIVE count_loop(_, _, _, _)
count_loop(input, lo, hi, st) ==
    IF lo >= hi THEN st
    ELSE IF hi = lo + 1 THEN count_step(input, lo, st)
    ELSE LET mid == (lo + hi) \div 2
             first == count_loop(input, lo, mid, st)
         IN  IF first.entry_len >= 0
             THEN count_loop(input, mid, hi, first)
             ELSE first

\* First pass (lines 153-165): count non-empty lines.
count_lines(input) ==
    count_loop(input, 0, Len(input), [entry_len |-> 0, entries_len |-> 0]).entries_len

\* One iteration of the second loop (lines 174-186), at input_off: a
\* delimiter is overwritten by NUL and ends the line that began entry_len
\* bytes before it.
chop_step(input_off, st) ==
    IF IsDelim(st.input[input_off + 1])
    THEN [input |-> [st.input EXCEPT ![input_off + 1] = NUL],
          entry_len |-> 0,
          ptrs |-> IF st.entry_len > 0
                   THEN Append(st.ptrs, input_off - st.entry_len)
                   ELSE st.ptrs]
    ELSE [st EXCEPT !.entry_len = @ + 1]

\* The iterations of the second loop for input_off = lo .. hi-1, in order.
RECURSIVE chop_loop(_, _, _)
chop_loop(lo, hi, st) ==
    IF lo >= hi THEN st
    ELSE IF hi = lo + 1 THEN chop_step(lo, st)
    ELSE LET mid == (lo + hi) \div 2
             first == chop_loop(lo, mid, st)
         IN  IF first.entry_len >= 0
             THEN chop_loop(mid, hi, first)
             ELSE first

\* Second pass (lines 171-187): the buffer with its delimiters overwritten
\* and the C offsets stored in e->entries.
chop_lines(input) ==
    chop_loop(0, Len(input), [input |-> input, entry_len |-> 0, ptrs |-> <<>>])

\* read_entries.  entries holds the string each stored pointer refers to.
read_entries(arena, in) ==
    LET a1 == alloc(arena, SizeofEntries, 1)
        input_len0 == a1.arena.end - a1.arena.beg
        input == fullread(in, input_len0 - 1) \o <<LF>>
        arena2 == [a1.arena EXCEPT !.beg = @ + Len(input)]
        entries_len == count_lines(input)
        a2 == alloc(arena2, SizeofPtr, entries_len)
        a3 == alloc(a2.arena, SizeofInt, entries_len)
        chopped == chop_lines(input)
    IN  IF ~a1.ok THEN [ok |-> FALSE, arena |-> arena]
        ELSE IF ~a2.ok THEN [ok |-> FALSE, arena |-> arena2]
        ELSE IF ~a3.ok THEN [ok |-> FALSE, arena |-> a2.arena]
        ELSE [ok |-> TRUE,
              arena |-> a3.arena,
              buffer |-> input,
              e |-> [entries |-> [k \in 1..Len(chopped.ptrs) |->
                                     CStr(chopped.input, chopped.ptrs[k])],
                     matches |-> FreshBlock(entries_len),
                     entries_len |-> entries_len,
                     matches_len |-> 0,
                     selected |-> 0]]

\* The Entries block as alloc returns it, before standard input is parsed.
NoEntries ==
    [entries |-> <<>>, matches |-> <<>>, entries_len |-> 0, matches_len |-> 0,
     selected |-> 0]

(* ----------------------------- terminal ------------------------------- *)

\* A struct termios is modelled as the set of its mode flags that are on,
\* among ECHO, ICANON, ISIG and CS8.  The block alloc zeroed for the
\* Terminal has none on.
ZeroTermios == {}
\* cfmakeraw: no echo, no line buffering, no signal keys, 8-bit characters.
cfmakeraw(t) == (t \ {"ECHO", "ICANON", "ISIG"}) \cup {"CS8"}

\* Attributes the controlling terminal may have when the program starts:
\* a cooked terminal without CS8, and one that is already raw.
StartupAttrs == {{"ECHO", "ICANON", "ISIG"}, {"CS8"}}

\* The descriptor open("/dev/tty") returns, or -1.
TtyFd == 3
OpenFailed == -1

\* restore_terminal_mode: the attributes the device gets.
restore_terminal_mode(term) == term.original

\* set_terminal_mode with tcgetattr's result overwritten by cfmakeraw: the
\* raw attributes are saved as original.
set_terminal_mode_SavesRaw(term, attrs) ==
    [term |-> [term EXCEPT !.original = cfmakeraw(attrs)], attrs |-> cfmakeraw(attrs)]

\* set_terminal_mode with the device at attributes attrs: the Terminal with
\* original saved, and the attributes the device gets.
set_terminal_mode(term, attrs) ==
    [term |-> [term EXCEPT !.original = attrs], attrs |-> cfmakeraw(attrs)]

(* ------------------------- matches and drawing ------------------------ *)

\* set_selected_clamped with > in place of >= in the upper test.
set_selected_clamped_OffByOne(e, n) ==
    [e EXCEPT !.selected = IF n < 0 THEN 0
                           ELSE IF n > e.matches_len THEN e.matches_len - 1
                           ELSE n]

set_selected_clamped(e, n) ==
    [e EXCEPT !.selected = IF n < 0 THEN 0
                           ELSE IF n >= e.matches_len THEN e.matches_len - 1
                           ELSE n]

\* The filter loop stopping one entry early (i < entries_len - 1).
RECURSIVE update_matches_loop_SkipsLast(_, _, _)
update_matches_loop_SkipsLast(e, pattern, i) ==
    IF i < e.entries_len - 1
    THEN IF is_match(pattern, e.entries[i + 1])
         THEN update_matches_loop_SkipsLast(
                  [e EXCEPT !.matches[e.matches_len + 1] = i,
                            !.matches_len = @ + 1],
                  pattern, i + 1)
         ELSE update_matches_loop_SkipsLast(e, pattern, i + 1)
    ELSE e

\* The filter loop of update_matches from entry index i on.
RECURSIVE update_matches_loop(_, _, _)
update_matches_loop(e, pattern, i) ==
    IF i < e.entries_len
    THEN IF is_match(pattern, e.entries[i + 1])
         THEN update_matches_loop(
                  [e EXCEPT !.matches[e.matches_len + 1] = i,
                            !.matches_len = @ + 1],
                  pattern, i + 1)
         ELSE update_matches_loop(e, pattern, i + 1)
    ELSE e

\* update_matches: the lowercased copy goes to the scratch arena (and is not
\* used by the filter loop); ok is FALSE on the "out of memory" exit.
update_matches(e, pattern, scratch) ==
    LET len == Len(pattern) + 1
        copy == alloc(scratch, SizeofChar, len)
    IN  IF ~copy.ok THEN [ok |-> FALSE, e |-> e]
        ELSE [ok |-> TRUE,
              e |-> update_matches_loop([e EXCEPT !.matches_len = 0], pattern, 0)]

\* The window starting one match too late once it scrolls.
draw_start_OneTooFar(term, e) ==
    IF e.selected > term.height - 3
    THEN e.selected - (term.height - 3) + 1
    ELSE 0

\* The first match index draw writes.
draw_start(term, e) ==
    IF e.selected > term.height - 3
    THEN e.selected - (term.height - 3)
    ELSE 0

\* The for loop of draw: one line per match from i on, until the break.
RECURSIVE draw_loop(_, _, _, _, _)
draw_loop(term, e, i, j, lines) ==
    IF i < e.matches_len
    THEN IF j + 1 = term.height - 1
         THEN lines
         ELSE draw_loop(term, e, i + 1, j + 1,
                        Append(lines, [i |-> i,
                                       entry |-> e.matches[i + 1],
                                       mark |-> (i = e.selected)]))
    ELSE lines

\* draw clamping from index 0 instead of from the current selected.
draw_ResetsSelected(term, e, pattern, scratch) ==
    LET um == update_matches(e, pattern, scratch)
        e2 == set_selected_clamped(um.e, 0)
    IN  IF ~um.ok THEN [ok |-> FALSE, e |-> e]
        ELSE [ok |-> TRUE,
              e |-> e2,
              screen |-> [prompt |-> pattern,
                          lines |-> draw_loop(term, e2, draw_start(term, e2), 0, <<>>)]]

\* draw: the Entries after the recompute and the clamp, and what the
\* cleared screen then shows.
draw(term, e, pattern, scratch) ==
    LET um == update_matches(e, pattern, scratch)
        e2 == set_selected_clamped(um.e, um.e.selected)
    IN  IF ~um.ok THEN [ok |-> FALSE, e |-> e]
        ELSE [ok |-> TRUE,
              e |-> e2,
              screen |-> [prompt |-> pattern,
                          lines |-> draw_loop(term, e2, draw_start(term, e2), 0, <<>>)]]

ch_isvalid(c) == c >= SPACE /\ c <= TILDE

\* The Up handler moving the selection the way the Down handler does.
select_next_Increments(e) ==
    set_selected_clamped([e EXCEPT !.selected = @ + 1], e.selected + 1)

select_next(e) == set_selected_clamped([e EXCEPT !.selected = @ - 1], e.selected - 1)

select_prev(e) == set_selected_clamped([e EXCEPT !.selected = @ + 1], e.selected + 1)

(* ------------------------------- state -------------------------------- *)

VARIABLES
    stdin,          \* the bytes standard input delivers
    arena,          \* main's Arena: [beg, end]
    e,              \* the Entries
    term,           \* the Terminal: [tty, height, original]
    tty_attrs,      \* the attributes the terminal device has now
    startup_attrs,  \* the attributes the terminal device had at startup
    screen,         \* what the last draw left on the cleared screen
    pattern,        \* the PATTERN_MAX bytes of the pattern buffer
    pattern_len,    \* main's pattern_len
    selected_entry, \* main's selected_entry: NULL or <<the entry's text>>
    ch,             \* the last byte getch returned
    pc,             \* where main is
    stdout,         \* the bytes written to descriptor 1
    stderr,         \* the lines written to descriptor 2
    exit_status,    \* the process exit status, -1 while running
    m_pattern,      \* matcher model: the pattern handed to is_match
    m_str,          \* matcher model: the candidate handed to is_match
    m_result,       \* matcher model: "none", or what is_match returned
    drawn,          \* whether the step just taken cleared and drew the screen
    a_mem,          \* allocator model: the bytes of the arena's region
    a_size,         \* allocator model: the size of the last alloc call
    a_count,        \* allocator model: the count of the last alloc call
    a_ptr           \* allocator model: the offset the last alloc returned

vars == <<stdin, arena, e, term, tty_attrs, startup_attrs, screen, pattern,
          pattern_len, selected_entry, ch, pc, stdout, stderr, exit_status,
          m_pattern, m_str, m_result, drawn, a_mem, a_size, a_count, a_ptr>>

matcher_vars == <<m_pattern, m_str, m_result>>

alloc_vars == <<a_mem, a_size, a_count, a_ptr>>

\* The allocator model, not in use.
AllocAtRest ==
    /\ a_mem = <<>>
    /\ a_size = 0
    /\ a_count = 0
    /\ a_ptr = 0

EXIT_SUCCESS == 0
EXIT_FAILURE == 1
Running == -1
NoKey == -1

\* The bytes getch returns at each of the three reads: what read stored, or,
\* when read returns 0, whatever the unset byte r holds.
\* At line 312: every named key, 'a', 'A' (the Up byte, printable here) and
\* Ctrl-A (byte 1), which is neither named nor printable.
Keys0 == {KEY_ENTER, KEY_CTRLC, KEY_BACKSPACE, KEY_ESCAPE0, LOWER_A, UPPER_A, 1}
\* At line 326: '[', and two bytes that are not '['.
Keys1 == {KEY_ESCAPE1, KEY_CTRLC, LOWER_A}
\* At line 328: the two arrows, and a byte that is neither.
Keys2 == {KEY_UP, KEY_DOWN, KEY_CTRLC}

\* Bytes of the short standard inputs.
InputBytes == {LF, LOWER_A, UPPER_A}

\* "Apple\nbanana\nAvocado"
ExampleInput ==
    <<65, 112, 112, 108, 101, 10, 98, 97, 110, 97, 110, 97, 10,
      65, 118, 111, 99, 97, 100, 111>>

\* Bytes left in the arena after the Entries block.
AfterEntries == MEMORY_MAX - SizeofEntries
\* What one entry, the Terminal and the pattern buffer need.
OneEntryNeed == SizeofPtr + SizeofInt
LoopNeed == OneEntryNeed + SizeofTerminal + PATTERN_MAX

\* One-line inputs that leave r bytes of the arena free once read, for r
\* around every threshold of the later allocations, and inputs too long
\* for the arena.
FillRemaining ==
    {0, SizeofPtr - 1, OneEntryNeed - 1, OneEntryNeed,
     OneEntryNeed + SizeofTerminal - 1, OneEntryNeed + SizeofTerminal,
     LoopNeed - 1, LoopNeed, LoopNeed + 1, LoopNeed + 2}

FillInputs ==
    {Rep(LOWER_A, AfterEntries - 1 - r) : r \in FillRemaining}
        \cup {Rep(LOWER_A, AfterEntries + 1), Rep(LF, AfterEntries) \o <<LOWER_A>>}

\* "b\na": typing 'a' leaves the second entry as the single match.
ShrinkInput == <<98, 10, 97>>

Inputs ==
    SeqsUpTo(InputBytes, MaxInput) \cup {ExampleInput, ShrinkInput} \cup FillInputs

Init ==
    /\ stdin \in Inputs
    /\ arena \in {ArenaFull, ArenaEmpty}
    /\ e = NoEntries
    /\ term = [tty |-> OpenFailed, height |-> 0, original |-> ZeroTermios]
    /\ startup_attrs \in StartupAttrs
    /\ tty_attrs = startup_attrs
    /\ screen = [prompt |-> <<>>, lines |-> <<>>, attrs |-> ZeroTermios]
    /\ pattern = <<>>
    /\ pattern_len = 0
    /\ selected_entry = NULL
    /\ ch = NoKey
    /\ pc = "read_entries"
    /\ stdout = <<>>
    /\ stderr = <<>>
    /\ exit_status = Running
    /\ m_pattern = <<>>
    /\ m_str = <<>>
    /\ m_result = "none"
    /\ drawn = FALSE
    /\ AllocAtRest

\* The screen a successful draw d leaves, with the attributes the terminal
\* had while clear_screen and the line writes ran.
Drawn(d, attrs) ==
    [prompt |-> d.screen.prompt, lines |-> d.screen.lines, attrs |-> attrs]

\* ERROR_EXIT leaving through exit(EXIT_SUCCESS).
ERROR_EXIT_Success(msg) ==
    /\ stderr' = Append(stderr, msg)
    /\ exit_status' = EXIT_SUCCESS
    /\ pc' = "fatal"

\* ERROR_EXIT(msg): one line on descriptor 2, then exit(EXIT_FAILURE).
ERROR_EXIT(msg) ==
    /\ stderr' = Append(stderr, msg)
    /\ exit_status' = EXIT_FAILURE
    /\ pc' = "fatal"

(* ------------------------------ startup ------------------------------- *)

\* main, line 302.
ReadEntries ==
    /\ drawn' = FALSE
    /\ pc = "read_entries"
    /\ LET r == read_entries(arena, stdin)
       IN  /\ arena' = r.arena
           /\ IF r.ok
              THEN /\ e' = r.e
                   /\ pc' = "get_terminal"
                   /\ UNCHANGED <<stderr, exit_status>>
              ELSE /\ ERROR_EXIT("out of memory")
                   /\ UNCHANGED e
    /\ UNCHANGED <<stdin, term, tty_attrs, startup_attrs, screen, pattern,
                   pattern_len, selected_entry, ch, stdout, matcher_vars, alloc_vars>>

\* main, line 303: get_terminal.  The window-size query may report any
\* number of rows.
GetTerminal ==
    /\ drawn' = FALSE
    /\ pc = "get_terminal"
    /\ LET a == alloc(arena, SizeofTerminal, 1)
       IN  IF ~a.ok
           THEN /\ ERROR_EXIT("out of memory")
                /\ UNCHANGED <<arena, term>>
           ELSE /\ arena' = a.arena
                /\ \E fd \in {TtyFd, OpenFailed} :
                      IF fd = OpenFailed
                      THEN /\ ERROR_EXIT("could not open /dev/tty")
                           /\ term' = [term EXCEPT !.tty = fd]
                      ELSE /\ \E h \in 0..MaxHeight :
                                 term' = [tty |-> fd, height |-> h,
                                          original |-> ZeroTermios]
                           /\ pc' = "first_draw"
                           /\ UNCHANGED <<stderr, exit_status>>
    /\ UNCHANGED <<stdin, e, tty_attrs, startup_attrs, screen, pattern,
                   pattern_len, selected_entry, ch, stdout, matcher_vars, alloc_vars>>

\* main, lines 304-310: the first draw, raw mode, the pattern buffer.
FirstDraw ==
    /\ pc = "first_draw"
    /\ LET d == draw(term, e, <<>>, arena)
           m == set_terminal_mode(term, tty_attrs)
           a == alloc(arena, SizeofChar, PATTERN_MAX)
       IN  IF ~d.ok
           THEN /\ ERROR_EXIT("out of memory")
                /\ drawn' = FALSE
                /\ UNCHANGED <<arena, e, term, tty_attrs, screen, pattern>>
           ELSE /\ e' = d.e
                /\ screen' = Drawn(d, tty_attrs)
                /\ drawn' = TRUE
                /\ term' = m.term
                /\ tty_attrs' = m.attrs
                /\ IF ~a.ok
                   THEN /\ ERROR_EXIT("out of memory")
                        /\ UNCHANGED <<arena, pattern>>
                   ELSE /\ arena' = a.arena
                        /\ pattern' = FreshBlock(PATTERN_MAX)
                        /\ pc' = "getch0"
                        /\ UNCHANGED <<stderr, exit_status>>
    /\ UNCHANGED <<stdin, startup_attrs, pattern_len, selected_entry, ch,
                   stdout, matcher_vars, alloc_vars>>

(* ------------------------------ key loop ------------------------------ *)

\* The string main hands to draw: pattern_len == 0 ? "" : pattern.
PatternArg(buf, len) == IF len = 0 THEN <<>> ELSE CStr(buf, 0)

\* The redraw without its restore_terminal_mode: the draw runs in raw mode
\* and set_terminal_mode then saves the raw attributes.
Redraw_WithoutRestore(e1, buf, len) ==
    LET restored == tty_attrs
        d == draw(term, e1, PatternArg(buf, len), arena)
        m == set_terminal_mode(term, restored)
    IN  /\ pattern' = buf
        /\ pattern_len' = len
        /\ IF ~d.ok
           THEN /\ ERROR_EXIT("out of memory")
                /\ tty_attrs' = restored
                /\ e' = e1
                /\ drawn' = FALSE
                /\ UNCHANGED <<term, screen>>
           ELSE /\ e' = d.e
                /\ screen' = Drawn(d, restored)
                /\ drawn' = TRUE
                /\ term' = m.term
                /\ tty_attrs' = m.attrs
                /\ pc' = "getch0"
                /\ UNCHANGED <<stderr, exit_status>>

\* main, lines 344-346, after a handler left the Entries e1, the pattern
\* buffer buf and the length len: restore_terminal_mode, draw,
\* set_terminal_mode, and back to the top of the loop.
Redraw(e1, buf, len) ==
    LET restored == restore_terminal_mode(term)
        d == draw(term, e1, PatternArg(buf, len), arena)
        m == set_terminal_mode(term, restored)
    IN  /\ pattern' = buf
        /\ pattern_len' = len
        /\ IF ~d.ok
           THEN /\ ERROR_EXIT("out of memory")
                /\ tty_attrs' = restored
                /\ e' = e1
                /\ drawn' = FALSE
                /\ UNCHANGED <<term, screen>>
           ELSE /\ e' = d.e
                /\ screen' = Drawn(d, restored)
                /\ drawn' = TRUE
                /\ term' = m.term
                /\ tty_attrs' = m.attrs
                /\ pc' = "getch0"
                /\ UNCHANGED <<stderr, exit_status>>

\* The if-else chain without its KEY_CTRLC branch.
KeyBranch_NoCtrlC(c) ==
    IF c = KEY_ENTER THEN "enter"
    ELSE IF c = KEY_BACKSPACE THEN "backspace"
    ELSE IF c = KEY_ESCAPE0 THEN "escape"
    ELSE IF c >= SPACE /\ c <= TILDE THEN "printable"
    ELSE "continue"

\* The branch of the if-else chain of lines 313-342 that byte c takes.
KeyBranch(c) ==
    IF c = KEY_ENTER THEN "enter"
    ELSE IF c = KEY_CTRLC THEN "ctrlc"
    ELSE IF c = KEY_BACKSPACE THEN "backspace"
    ELSE IF c = KEY_ESCAPE0 THEN "escape"
    ELSE IF ch_isvalid(c) THEN "printable"
    ELSE "continue"

\* Enter indexing entries by selected itself, not by matches[selected].
EnterCapture_Direct(e1, old) ==
    IF e1.matches_len > 0
    THEN IF e1.selected + 1 \in DOMAIN e1.entries
         THEN <<e1.entries[e1.selected + 1]>>
         ELSE <<<<Indet>>>>
    ELSE old

\* Enter with its guard weakened to matches_len >= 0.
EnterCapture_Unguarded(e1, old) ==
    IF e1.matches_len >= 0
    THEN IF /\ e1.selected >= 0
            /\ e1.selected < e1.matches_len
            /\ e1.matches[e1.selected + 1] + 1 \in DOMAIN e1.entries
         THEN <<e1.entries[e1.matches[e1.selected + 1] + 1]>>
         ELSE <<<<Indet>>>>
    ELSE old

\* Lines 314-317: what Enter leaves in selected_entry.  A read of matches
\* or entries outside what was written yields an indeterminate pointer.
EnterCapture(e1, old) ==
    IF e1.matches_len > 0
    THEN IF /\ e1.selected >= 0
            /\ e1.selected < e1.matches_len
            /\ e1.matches[e1.selected + 1] + 1 \in DOMAIN e1.entries
         THEN <<e1.entries[e1.matches[e1.selected + 1] + 1]>>
         ELSE <<<<Indet>>>>
    ELSE old

\* Lines 322-324: the length and the buffer Backspace leaves.
BackspaceLen(len) == IF (len - 1) > -1 THEN len - 1 ELSE len

\* Backspace lowering the length without writing the terminator.
BackspaceBuf_NoTerminator(buf, len) == buf

BackspaceBuf(buf, len) == [buf EXCEPT ![BackspaceLen(len) + 1] = NUL]

\* The test of line 336 against PATTERN_MAX instead of PATTERN_MAX - 1.
PatternTooLong_Late(len) == len >= PATTERN_MAX

\* Line 336: the test that takes the "pattern too long" exit.
PatternTooLong(len) == len >= PATTERN_MAX - 1

\* getch fails: read returned -1.
GetchError ==
    /\ drawn' = FALSE
    /\ pc \in {"getch0", "getch1", "getch2"}
    /\ ERROR_EXIT("tty input error")
    /\ UNCHANGED <<stdin, arena, e, term, tty_attrs, startup_attrs, screen,
                   pattern, pattern_len, selected_entry, ch, stdout,
                   matcher_vars, alloc_vars>>

\* Line 312 reads Enter.
KeyEnter ==
    /\ drawn' = FALSE
    /\ pc = "getch0"
    /\ \E c \in Keys0 :
          /\ KeyBranch(c) = "enter"
          /\ ch' = c
    /\ selected_entry' = EnterCapture(e, selected_entry)
    /\ pc' = "end"
    /\ UNCHANGED <<stdin, arena, e, term, tty_attrs, startup_attrs, screen,
                   pattern, pattern_len, stdout, stderr, exit_status,
                   matcher_vars, alloc_vars>>

\* Line 312 reads Ctrl-C.
KeyCtrlC ==
    /\ drawn' = FALSE
    /\ pc = "getch0"
    /\ \E c \in Keys0 :
          /\ KeyBranch(c) = "ctrlc"
          /\ ch' = c
    /\ pc' = "end"
    /\ UNCHANGED <<stdin, arena, e, term, tty_attrs, startup_attrs, screen,
                   pattern, pattern_len, selected_entry, stdout, stderr,
                   exit_status, matcher_vars, alloc_vars>>

\* Line 312 reads Backspace.
KeyBackspace ==
    /\ pc = "getch0"
    /\ \E c \in Keys0 :
          /\ KeyBranch(c) = "backspace"
          /\ ch' = c
    /\ Redraw(e, BackspaceBuf(pattern, pattern_len), BackspaceLen(pattern_len))
    /\ UNCHANGED <<stdin, arena, startup_attrs, selected_entry, stdout,
                   matcher_vars, alloc_vars>>

\* Line 312 reads Escape: the next byte is read at line 326.
KeyEscape ==
    /\ drawn' = FALSE
    /\ pc = "getch0"
    /\ \E c \in Keys0 :
          /\ KeyBranch(c) = "escape"
          /\ ch' = c
    /\ pc' = "getch1"
    /\ UNCHANGED <<stdin, arena, e, term, tty_attrs, startup_attrs, screen,
                   pattern, pattern_len, selected_entry, stdout, stderr,
                   exit_status, matcher_vars, alloc_vars>>

\* Line 326 reads the byte after Escape: '[' leads to the read of line 328,
\* any other byte falls out of the if to the redraw.
Escape1 ==
    /\ pc = "getch1"
    /\ \E c \in Keys1 :
          /\ ch' = c
          /\ IF c = KEY_ESCAPE1
             THEN /\ pc' = "getch2"
                  /\ drawn' = FALSE
                  /\ UNCHANGED <<e, term, tty_attrs, screen, pattern,
                                 pattern_len, stderr, exit_status>>
             ELSE Redraw(e, pattern, pattern_len)
    /\ UNCHANGED <<stdin, arena, startup_attrs, selected_entry, stdout,
                   matcher_vars, alloc_vars>>

\* Line 328 reads the byte after Escape '[' (the switch operand; ch records
\* it here although main does not store it), then the redraw.
Escape2 ==
    /\ pc = "getch2"
    /\ \E c \in Keys2 :
          /\ ch' = c
          /\ Redraw(IF c = KEY_UP THEN select_next(e)
                    ELSE IF c = KEY_DOWN THEN select_prev(e)
                    ELSE e,
                    pattern, pattern_len)
    /\ UNCHANGED <<stdin, arena, startup_attrs, selected_entry, stdout,
                   matcher_vars, alloc_vars>>

\* Line 312 reads a printable byte: lines 335-338, then the redraw.
KeyPrintable ==
    /\ pc = "getch0"
    /\ \E c \in Keys0 :
          /\ KeyBranch(c) = "printable"
          /\ ch' = c
          /\ LET buf1 == [pattern EXCEPT ![pattern_len + 1] = c]
                 len1 == pattern_len + 1
             IN  IF PatternTooLong(len1)
                 THEN /\ ERROR_EXIT("pattern too long")
                      /\ drawn' = FALSE
                      /\ pattern' = buf1
                      /\ pattern_len' = len1
                      /\ UNCHANGED <<e, term, tty_attrs, screen>>
                 ELSE Redraw(e, [buf1 EXCEPT ![len1 + 1] = NUL], len1)
    /\ UNCHANGED <<stdin, arena, startup_attrs, selected_entry, stdout,
                   matcher_vars, alloc_vars>>

\* Line 312 reads any other byte: continue, with no redraw.
KeyContinue ==
    /\ drawn' = FALSE
    /\ pc = "getch0"
    /\ \E c \in Keys0 :
          /\ KeyBranch(c) = "continue"
          /\ ch' = c
    /\ pc' = "getch0"
    /\ UNCHANGED <<stdin, arena, e, term, tty_attrs, startup_attrs, screen,
                   pattern, pattern_len, selected_entry, stdout, stderr,
                   exit_status, matcher_vars, alloc_vars>>

(* -------------------------------- end --------------------------------- *)

\* Line 350.
RestoreAtEnd ==
    /\ drawn' = FALSE
    /\ pc = "end"
    /\ tty_attrs' = restore_terminal_mode(term)
    /\ pc' = "output"
    /\ UNCHANGED <<stdin, arena, e, term, startup_attrs, screen, pattern,
                   pattern_len, selected_entry, ch, stdout, stderr,
                   exit_status, matcher_vars, alloc_vars>>

\* Lines 352-356: writestr(1, selected_entry) if it is set, then return.
WriteAndReturn ==
    /\ drawn' = FALSE
    /\ pc = "output"
    /\ stdout' = IF selected_entry # NULL THEN stdout \o selected_entry[1]
                 ELSE stdout
    /\ exit_status' = EXIT_SUCCESS
    /\ pc' = "exited"
    /\ UNCHANGED <<stdin, arena, e, term, tty_attrs, startup_attrs, screen,
                   pattern, pattern_len, selected_entry, ch, stderr,
                   matcher_vars, alloc_vars>>

Next ==
    \/ ReadEntries
    \/ GetTerminal
    \/ FirstDraw
    \/ GetchError
    \/ KeyEnter
    \/ KeyCtrlC
    \/ KeyBackspace
    \/ KeyEscape
    \/ Escape1
    \/ Escape2
    \/ KeyPrintable
    \/ KeyContinue
    \/ RestoreAtEnd
    \/ WriteAndReturn

Spec == Init /\ [][Next]_vars

(* --------------------------- matcher model ---------------------------- *)

\* Bytes of the patterns and candidates handed to is_match: 'a', 'A', 'b'
\* (98), 'B' (66) and '[' (91), the byte right after 'Z'.
MatchBytes == {LOWER_A, UPPER_A, 98, 66, 91}

\* Every variable of the session, at rest.
SessionAtRest ==
    /\ stdin = <<>>
    /\ arena = ArenaFull
    /\ e = NoEntries
    /\ term = [tty |-> OpenFailed, height |-> 0, original |-> ZeroTermios]
    /\ startup_attrs = {"ECHO", "ICANON", "ISIG"}
    /\ tty_attrs = startup_attrs
    /\ screen = [prompt |-> <<>>, lines |-> <<>>, attrs |-> ZeroTermios]
    /\ pattern = <<>>
    /\ pattern_len = 0
    /\ selected_entry = NULL
    /\ ch = NoKey
    /\ stdout = <<>>
    /\ stderr = <<>>
    /\ exit_status = Running
    /\ drawn = FALSE

\* A printable pattern and a non-empty candidate, as update_matches hands
\* them to is_match.
InitMatch ==
    /\ SessionAtRest
    /\ pc = "is_match"
    /\ m_pattern \in SeqsUpTo(MatchBytes, MaxMatchLen)
    /\ m_str \in SeqsUpTo(MatchBytes, MaxMatchLen) \ {<<>>}
    /\ m_result = "none"
    /\ AllocAtRest

\* The call of line 210.
IsMatchCall ==
    /\ pc = "is_match"
    /\ m_result' = is_match(m_pattern, m_str)
    /\ pc' = "matched"
    /\ UNCHANGED <<stdin, arena, e, term, tty_attrs, startup_attrs, screen,
                   pattern, pattern_len, selected_entry, ch, stdout, stderr,
                   exit_status, m_pattern, m_str, drawn, alloc_vars>>

SpecMatch == InitMatch /\ [][IsMatchCall]_vars

(* -------------------------- allocator model --------------------------- *)

\* The arena main sets up over malloc's region (lines 297-298), and the
\* zero-sized one it sets up when malloc fails (line 295).
AllocArenas ==
    {[beg |-> 0, end |-> MaxArena], [beg |-> MaxArena, end |-> MaxArena]}

\* An arena whose region holds zero and non-zero bytes in any arrangement.
InitAlloc ==
    /\ arena \in AllocArenas
    /\ a_mem \in [1..MaxArena -> {0, Garbage}]
    /\ a_size = 0
    /\ a_count = 0
    /\ a_ptr = arena.end
    /\ pc = "alloc"
    /\ stdin = <<>>
    /\ e = NoEntries
    /\ term = [tty |-> OpenFailed, height |-> 0, original |-> ZeroTermios]
    /\ startup_attrs = {"ECHO", "ICANON", "ISIG"}
    /\ tty_attrs = startup_attrs
    /\ screen = [prompt |-> <<>>, lines |-> <<>>, attrs |-> ZeroTermios]
    /\ pattern = <<>>
    /\ pattern_len = 0
    /\ selected_entry = NULL
    /\ ch = NoKey
    /\ stdout = <<>>
    /\ stderr = <<>>
    /\ exit_status = Running
    /\ drawn = FALSE
    /\ m_pattern = <<>>
    /\ m_str = <<>>
    /\ m_result = "none"

\* One call alloc(arena, size, count), lines 85-95.
AllocCall ==
    /\ pc = "alloc"
    /\ \E size \in 1..MaxAllocSize, count \in 0..MaxAllocCount :
          LET a == alloc(arena, size, count)
          IN  /\ a_size' = size
              /\ a_count' = count
              /\ IF ~a.ok
                 THEN /\ ERROR_EXIT("out of memory")
                      /\ UNCHANGED <<arena, a_mem, a_ptr>>
                 ELSE /\ arena' = a.arena
                      /\ a_mem' = alloc_mem(a_mem, a.arena, size, count)
                      /\ a_ptr' = a.arena.end
                      /\ UNCHANGED <<pc, stderr, exit_status>>
    /\ UNCHANGED <<stdin, e, term, tty_attrs, startup_attrs, screen, pattern,
                   pattern_len, selected_entry, ch, stdout, drawn,
                   matcher_vars>>

SpecAlloc == InitAlloc /\ [][AllocCall]_vars

(* --------------------------- parsing model ---------------------------- *)

\* Bytes of the inputs handed to read_entries: the three delimiters, 'a'
\* and 'b' (98).
ParseBytes == {NUL, LF, CR, LOWER_A, 98}

\* Any short input over ParseBytes, or an input that fills the arena.
InitParse ==
    /\ stdin \in SeqsUpTo(ParseBytes, MaxParseInput) \cup FillInputs
    /\ arena = ArenaFull
    /\ e = NoEntries
    /\ term = [tty |-> OpenFailed, height |-> 0, original |-> ZeroTermios]
    /\ startup_attrs = {"ECHO", "ICANON", "ISIG"}
    /\ tty_attrs = startup_attrs
    /\ screen = [prompt |-> <<>>, lines |-> <<>>, attrs |-> ZeroTermios]
    /\ pattern = <<>>
    /\ pattern_len = 0
    /\ selected_entry = NULL
    /\ ch = NoKey
    /\ pc = "read_entries"
    /\ stdout = <<>>
    /\ stderr = <<>>
    /\ exit_status = Running
    /\ m_pattern = <<>>
    /\ m_str = <<>>
    /\ m_result = "none"
    /\ drawn = FALSE
    /\ AllocAtRest

SpecParse == InitParse /\ [][ReadEntries]_vars

(* ============================ properties ============================== *)

\* The characters typed and not yet erased.
CurPattern == SubSeq(pattern, 1, pattern_len)

\* main is blocked in one of its three getch calls.
Waiting == pc \in {"getch0", "getch1", "getch2"}

\* main left the loop through the end label.
Ended == pc \in {"end", "output", "exited"}

\* This step returned a byte from getch (no exit was taken in it).
ByteRead == stderr' = stderr

\* 'A'..'Z' folded to lowercase, every other byte as it is.
Fold(c) == IF c \in 65..90 THEN c + 32 ELSE c

\* The entry the selection designates: entries[matches[selected]].
SelectedText == e.entries[e.matches[e.selected + 1] + 1]

\* The indices of the entries the matcher accepts for the current pattern.
MatchingIndices ==
    {i \in 0..(e.entries_len - 1) : is_match(CurPattern, e.entries[i + 1])}

\* matches[0 .. matches_len-1] lists MatchingIndices in increasing order.
MatchesAreTheFilter ==
    /\ e.matches_len = Cardinality(MatchingIndices)
    /\ e.matches_len <= e.entries_len
    /\ \A k \in 1..e.matches_len : e.matches[k] \in MatchingIndices
    /\ \A k \in 1..(e.matches_len - 1) : e.matches[k] < e.matches[k + 1]

(* C1: when Enter is read at the top of the key loop while matches is     *)
(* non-empty, the session ends with selected_entry set to                 *)
(* entries[matches[selected]] for the matches and selected of that        *)
(* moment, matches being the filter of the current pattern; standard      *)
(* output then receives exactly that text, and nothing is written to      *)
(* standard output at any earlier point of the run.                       *)
C1_EnterWritesSelected ==
    /\ [](pc # "exited" => stdout = <<>>)
    /\ [][(pc = "getch0" /\ ByteRead /\ ch' = KEY_ENTER /\ e.matches_len > 0)
            => /\ pc' = "end"
               /\ e' = e
               /\ pattern' = pattern /\ pattern_len' = pattern_len
               /\ selected_entry' = <<SelectedText>>]_vars
    /\ []((Ended /\ ch = KEY_ENTER /\ e.matches_len > 0)
            => /\ MatchesAreTheFilter
               /\ selected_entry = <<SelectedText>>)
    /\ []((pc = "exited" /\ ch = KEY_ENTER /\ e.matches_len > 0)
            => stdout = SelectedText)

\* Enter confirmed the second of the filtered matches and it was written.
C1_Witness ==
    /\ pc = "exited"
    /\ ch = KEY_ENTER
    /\ pattern_len > 0
    /\ e.matches_len < e.entries_len
    /\ e.selected > 0
    /\ stdout = SelectedText
    /\ stdout # <<>>

\* The claimed matcher: the folded pattern is a position-by-position prefix
\* of the folded candidate.
FoldedPrefix(p, s) ==
    /\ Len(p) <= Len(s)
    /\ \A k \in 1..Len(p) : Fold(p[k]) = Fold(s[k])

(* C2: for every printable pattern and non-empty candidate, is_match      *)
(* returns true iff the pattern with 'A'..'Z' folded to lowercase is a    *)
(* position-by-position prefix of the candidate folded the same way.      *)
C2_FoldsBothSides ==
    pc = "matched" => (m_result = FoldedPrefix(m_pattern, m_str))

(* C3: every time the loop waits for a keystroke, matches is exactly the  *)
(* strictly increasing list of all indices in [0, entries_len) whose      *)
(* entry the matcher accepts for the current pattern, and matches_len <=  *)
(* entries_len; for Apple, banana, Avocado and pattern "a" the matches    *)
(* are Apple and Avocado, in that order.                                  *)
C3_MatchesAreTheFilter ==
    Waiting =>
        /\ MatchesAreTheFilter
        /\ (stdin = ExampleInput /\ CurPattern = <<97>>)
              => /\ e.matches_len = 2
                 /\ e.entries[e.matches[1] + 1] = <<65, 112, 112, 108, 101>>
                 /\ e.entries[e.matches[2] + 1] = <<65, 118, 111, 99, 97, 100, 111>>

\* The loop waits with pattern "a" on Apple, banana, Avocado.
C3_Witness ==
    /\ pc = "getch0"
    /\ stdin = ExampleInput
    /\ CurPattern = <<97>>
    /\ e.matches_len = 2
    /\ e.entries_len = 3

(* C4: whenever matches is non-empty at a key read (that is, after a      *)
(* draw), 0 <= selected <= matches_len-1; Enter never reads matches or    *)
(* entries out of bounds; every line a draw writes is a match index in    *)
(* [0, matches_len).                                                      *)
C4_SelectedInBounds ==
    /\ (Waiting /\ e.matches_len > 0)
          => (0 <= e.selected /\ e.selected <= e.matches_len - 1)
    /\ selected_entry # <<<<Indet>>>>
    /\ Waiting => \A k \in 1..Len(screen.lines) :
                     /\ 0 <= screen.lines[k].i
                     /\ screen.lines[k].i < e.matches_len

\* The selection sits on the last of fewer matches than entries, below the
\* first, after a pattern edit.
C4_Witness ==
    /\ pc = "getch0"
    /\ pattern_len > 0
    /\ e.matches_len < e.entries_len
    /\ e.selected = e.matches_len - 1
    /\ e.selected > 0

(* C5: once main is past the end label's restore (Confirmed or Cancelled, *)
(* after any number of redraws), the terminal has exactly the attributes  *)
(* it had at startup, and standard output holds no byte before that.      *)
C5_RestoredBeforeOutput ==
    /\ pc \in {"output", "exited"} => tty_attrs = startup_attrs
    /\ stdout # <<>> => tty_attrs = startup_attrs
    /\ pc = "end" => stdout = <<>>

\* A cooked terminal, redraws, a confirmed entry written.
C5_Witness ==
    /\ pc = "exited"
    /\ "ECHO" \in startup_attrs
    /\ pattern_len > 0
    /\ stdout # <<>>
    /\ tty_attrs = startup_attrs

\* The line ERROR_EXIT wrote last, if any.
LastError == IF stderr = <<>> THEN "" ELSE stderr[Len(stderr)]

(* C6: when the process terminates through the "pattern too long" exit or *)
(* the terminal-read-error exit, the terminal attributes equal those      *)
(* captured at startup.                                                   *)
C6_RestoredOnFatal ==
    (pc = "fatal" /\ LastError \in {"pattern too long", "tty input error"})
        => tty_attrs = startup_attrs

(* C7 as claimed: every Ctrl-C byte a getch returns, at any of the three  *)
(* reads, ends the session.                                               *)
C7_EveryCtrlCCancels ==
    [][(Waiting /\ ByteRead /\ ch' = KEY_CTRLC) => pc' = "end"]_vars

(* C7: every Ctrl-C byte read at the top of the key loop (line 312) ends  *)
(* the session as Cancelled with no result, whatever was typed before; a  *)
(* Ctrl-C byte read as the second or third byte of an escape sequence     *)
(* (lines 326, 328) is consumed by that sequence and the loop goes on.    *)
C7_TopLevelCtrlCCancels ==
    /\ [][(pc = "getch0" /\ ByteRead /\ ch' = KEY_CTRLC)
            => (pc' = "end" /\ selected_entry' = NULL /\ stdout' = <<>>)]_vars
    /\ [][(pc \in {"getch1", "getch2"} /\ ByteRead /\ ch' = KEY_CTRLC)
            => (pc' = "getch0" /\ selected_entry' = NULL)]_vars
    /\ []((Ended /\ ch = KEY_CTRLC)
            => (selected_entry = NULL /\ stdout = <<>>))

\* Ctrl-C at the top of the loop, after typing, ended the session.
C7_Witness ==
    /\ pc = "exited"
    /\ ch = KEY_CTRLC
    /\ pattern_len > 0
    /\ e.matches_len > 0
    /\ selected_entry = NULL

(* C8: Enter read at the top of the loop while matches is empty ends the  *)
(* session with selected_entry still NULL; zero bytes are written to      *)
(* standard output and the exit status is success.                        *)
C8_EnterWithoutMatches ==
    /\ [][(pc = "getch0" /\ ByteRead /\ ch' = KEY_ENTER /\ e.matches_len = 0)
            => (pc' = "end" /\ selected_entry' = NULL)]_vars
    /\ []((Ended /\ ch = KEY_ENTER /\ e.matches_len = 0)
            => /\ selected_entry = NULL
               /\ stdout = <<>>
               /\ pc = "exited" => exit_status = EXIT_SUCCESS)

\* Enter on a pattern that no entry matches, up to the exit.
C8_Witness ==
    /\ pc = "exited"
    /\ ch = KEY_ENTER
    /\ e.entries_len > 0
    /\ e.matches_len = 0
    /\ pattern_len > 0
    /\ stdout = <<>>
    /\ exit_status = EXIT_SUCCESS

\* This step read a printable byte at the top of the key loop.
PrintableRead ==
    /\ pc = "getch0"
    /\ ch' \in 32..126
    /\ \/ ByteRead
       \/ stderr' = Append(stderr, "pattern too long")
       \/ stderr' = Append(stderr, "out of memory")

(* C9 as claimed, with M = PATTERN_MAX-1: a printable key that makes the  *)
(* pattern length at most M does not take the "pattern too long" exit.    *)
C9_FullBufferAccepted ==
    [][(PrintableRead /\ pattern_len + 1 <= PATTERN_MAX - 1)
          => LastError' # "pattern too long"]_vars

(* C9: with M = PATTERN_MAX-2, for any interleaving of printable keys and *)
(* backspaces: a printable key that makes the pattern length at most M is *)
(* appended and the session continues (unless the redraw's scratch        *)
(* allocation runs out of memory); the "pattern too long" exit, with a    *)
(* non-zero status, is taken exactly by a printable key that would make   *)
(* the length M+1.                                                        *)
C9_PatternLimit ==
    /\ [][(PrintableRead /\ pattern_len + 1 <= PATTERN_MAX - 2)
            => /\ pattern_len' = pattern_len + 1
               /\ SubSeq(pattern', 1, pattern_len') = Append(CurPattern, ch')
               /\ \/ pc' = "getch0" /\ exit_status' = Running
                  \/ pc' = "fatal" /\ LastError' = "out of memory"]_vars
    /\ [][(PrintableRead /\ pattern_len + 1 > PATTERN_MAX - 2)
            => /\ pattern_len + 1 = PATTERN_MAX - 1
               /\ pc' = "fatal"
               /\ LastError' = "pattern too long"
               /\ exit_status' # EXIT_SUCCESS]_vars
    /\ [][LastError' = "pattern too long"
            => (LastError = "pattern too long" \/ PrintableRead)]_vars
    /\ [](Waiting => pattern_len <= PATTERN_MAX - 2)

\* Exactly PATTERN_MAX-2 characters were typed and the loop waits again.
C9_Witness ==
    /\ pc = "getch0"
    /\ pattern_len = PATTERN_MAX - 2
    /\ ch \in 32..126
    /\ exit_status = Running

\* The delimiter bytes: NUL, '\n', '\r'.
Delimiters == {0, 10, 13}

\* Where the maximal runs of non-delimiter bytes of s begin.
RunStarts(s) ==
    {i \in 1..Len(s) : s[i] \notin Delimiters /\ (i = 1 \/ s[i - 1] \in Delimiters)}

\* The maximal run of s that begins at i.
RunAt(s, i) ==
    LET last == CHOOSE j \in i..Len(s) :
                    /\ \A k \in i..j : s[k] \notin Delimiters
                    /\ (j = Len(s) \/ s[j + 1] \in Delimiters)
    IN  SubSeq(s, i, last)

\* list holds the maximal runs of s, each once, in the order of s.
IsRunsOf(list, s) ==
    /\ Len(list) = Cardinality(RunStarts(s))
    /\ \A i \in RunStarts(s) :
          list[Cardinality({j \in RunStarts(s) : j <= i})] = RunAt(s, i)

\* The bytes of standard input that fullread stored: all of them, unless
\* they do not fit in what the arena has left after the Entries block.
BytesRead ==
    IF Len(stdin) < AfterEntries THEN stdin ELSE SubSeq(stdin, 1, AfterEntries - 1)

(* C10: when read_entries returns, the entries are exactly the maximal    *)
(* runs of non-delimiter bytes of the bytes read from standard input,     *)
(* each once, unmodified and in input order; the count of the first pass  *)
(* equals the number of entries the second pass stored; bytes that are    *)
(* all delimiters (or none) yield zero entries; and whenever an entry was *)
(* parsed, the bytes read are the whole of standard input.                *)
C10_EntriesAreTheRuns ==
    pc = "get_terminal" =>
        /\ IsRunsOf(e.entries, BytesRead)
        /\ e.entries_len = Len(e.entries)
        /\ Len(e.matches) = e.entries_len
        /\ (\A k \in 1..Len(BytesRead) : BytesRead[k] \in Delimiters)
              => e.entries_len = 0
        /\ e.entries_len > 0 => BytesRead = stdin

\* Leading, consecutive and mixed delimiters, and no trailing newline.
C10_Witness ==
    /\ pc = "get_terminal"
    /\ stdin = <<10, 97, 13, 0, 98>>
    /\ e.entries = <<<<97>>, <<98>>>>
    /\ e.entries_len = 2

Max(a, b) == IF a > b THEN a ELSE b

\* What a step of the loop leaves alone when it only moves the selection:
\* the pattern, the entries and the match list, back at the top of the loop.
OnlySelectionMoved ==
    /\ pc' = "getch0"
    /\ pattern' = pattern
    /\ pattern_len' = pattern_len
    /\ e'.entries = e.entries
    /\ e'.entries_len = e.entries_len
    /\ e'.matches = e.matches
    /\ e'.matches_len = e.matches_len

(* C11: with matches non-empty, the third byte Up of an Escape '[' Up     *)
(* sequence leaves selected at max(selected - 1, 0) and the third byte    *)
(* Down of an Escape '[' Down sequence leaves it at                       *)
(* min(selected + 1, matches_len - 1); both leave the pattern, the        *)
(* entries and the matches unchanged, so Up at index 0 and Down at the    *)
(* last match change nothing.                                             *)
C11_ArrowsMoveSelection ==
    /\ [][(pc = "getch2" /\ ByteRead /\ e.matches_len > 0 /\ ch' = KEY_UP)
            => /\ e'.selected = Max(e.selected - 1, 0)
               /\ OnlySelectionMoved
               /\ e.selected = 0 => e' = e]_vars
    /\ [][(pc = "getch2" /\ ByteRead /\ e.matches_len > 0 /\ ch' = KEY_DOWN)
            => /\ e'.selected = Min(e.selected + 1, e.matches_len - 1)
               /\ OnlySelectionMoved
               /\ e.selected = e.matches_len - 1 => e' = e]_vars

\* Down keys moved the selection to the last of three matches.
C11_Witness ==
    /\ pc = "getch0"
    /\ ch = KEY_DOWN
    /\ e.matches_len = 3
    /\ e.selected = 2

\* This step read Backspace at the top of the key loop.
BackspaceRead == pc = "getch0" /\ ByteRead /\ ch' = KEY_BACKSPACE

(* C12: Backspace read while the pattern is empty leaves the pattern      *)
(* length at 0 (the length is never negative and the terminator is        *)
(* written inside the buffer) and leaves the pattern, the matches and     *)
(* selected as they were at the key read before it; Backspace read while  *)
(* the pattern is non-empty removes exactly its last character.           *)
C12_BackspaceOnEmptyIsNoOp ==
    /\ [](pattern_len >= 0)
    /\ [][(BackspaceRead /\ pattern_len = 0)
            => /\ pc' = "getch0"
               /\ pattern_len' = 0
               /\ pattern' = pattern
               /\ e'.matches = e.matches
               /\ e'.matches_len = e.matches_len
               /\ e'.selected = e.selected]_vars
    /\ [][(BackspaceRead /\ pattern_len > 0)
            => /\ pattern_len' = pattern_len - 1
               /\ CurPattern' = SubSeq(CurPattern, 1, pattern_len - 1)]_vars

\* The diagnostics of the four ERROR_EXIT calls.
Diagnostics ==
    {"out of memory", "could not open /dev/tty", "tty input error",
     "pattern too long"}

(* C13: on every fatal path (out of memory, /dev/tty cannot be opened,    *)
(* terminal read error, pattern too long) the process exits with a        *)
(* non-zero status after exactly one diagnostic line on standard error,   *)
(* and standard output has zero bytes; a process that left through the    *)
(* end label (Confirmed or Cancelled) exits with status 0 and nothing on  *)
(* standard error; no other state has exited.                             *)
C13_ExitStatuses ==
    /\ pc = "fatal" => /\ exit_status # 0
                       /\ exit_status = EXIT_FAILURE
                       /\ Len(stderr) = 1
                       /\ stderr[1] \in Diagnostics
                       /\ stdout = <<>>
    /\ pc = "exited" => /\ exit_status = 0
                        /\ stderr = <<>>
                        /\ ch \in {KEY_ENTER, KEY_CTRLC}
    /\ pc \notin {"fatal", "exited"} => /\ exit_status = Running
                                        /\ stderr = <<>>

\* A failing read of the terminal, after a match was highlighted.
C13_Witness ==
    /\ pc = "fatal"
    /\ stderr = <<"tty input error">>
    /\ exit_status = EXIT_FAILURE
    /\ e.matches_len > 0
    /\ pattern_len > 0

\* This step read the last byte of an escape sequence that selects nothing:
\* Escape and a byte other than '[', or Escape '[' and a byte other than
\* Up and Down.
IgnoredEscapeRead ==
    /\ ByteRead
    /\ \/ pc = "getch1" /\ ch' # KEY_ESCAPE1
       \/ pc = "getch2" /\ ch' \notin {KEY_UP, KEY_DOWN}

(* C14: after an ignored escape sequence the loop is back at the read of  *)
(* line 312 with the pattern, the matches and selected unchanged, and the *)
(* step neither cleared the screen nor wrote to the terminal (no redraw). *)
C14_IgnoredEscapeNoRedraw ==
    [][IgnoredEscapeRead
         => /\ pc' = "getch0"
            /\ pattern' = pattern
            /\ pattern_len' = pattern_len
            /\ e'.matches = e.matches
            /\ e'.matches_len = e.matches_len
            /\ e'.selected = e.selected
            /\ drawn' = FALSE]_vars

\* The match index draw starts from, as the claim of C15 states it.
WindowStart ==
    IF e.selected <= term.height - 3 THEN 0
    ELSE e.selected - (term.height - 3)

C16_AtMostHeightMinusTwoLines ==
    Waiting =>
        /\ Len(screen.lines) <= Max(0, term.height - 2)
        /\ \A k \in 1..Len(screen.lines) :
              /\ screen.lines[k].i \in 0..(e.matches_len - 1)
              /\ screen.lines[k].entry \in 0..(e.entries_len - 1)

\* Raw mode: no echo, no line buffering, no signal keys.
IsRaw(attrs) == attrs \cap {"ECHO", "ICANON", "ISIG"} = {}

(* C17: every read of a key byte, the second and third bytes of an escape *)
(* sequence included, happens with the terminal in raw mode; every draw   *)
(* clears the screen and writes its lines with the terminal in its        *)
(* original mode, the attributes it had at startup; a step that redraws   *)
(* restores the mode, recomputes the matches from the new pattern, clamps *)
(* selected, draws, and ends in raw mode; and the attributes saved as     *)
(* original on each entry to raw mode are the startup attributes.         *)
C17_ModeProtocol ==
    /\ [](Waiting => /\ IsRaw(tty_attrs)
                     /\ tty_attrs = cfmakeraw(startup_attrs)
                     /\ term.original = startup_attrs
                     /\ screen.attrs = startup_attrs)
    /\ [][drawn' => /\ screen'.attrs = startup_attrs
                    /\ screen'.attrs = term'.original
                    /\ screen'.prompt = CurPattern'
                    /\ MatchesAreTheFilter'
                    /\ e'.matches_len > 0
                          => e'.selected \in 0..(e'.matches_len - 1)
                    /\ \A k \in 1..Len(screen'.lines) :
                          screen'.lines[k].mark
                             <=> screen'.lines[k].i = e'.selected
                    /\ tty_attrs' = cfmakeraw(startup_attrs)]_vars
    /\ [][(Waiting /\ Waiting')
            => /\ term'.original = term.original
               /\ tty_attrs' = tty_attrs]_vars

\* The third byte of an escape sequence is about to be read in raw mode,
\* on a terminal that started cooked, after a redraw for a typed pattern.
C17_Witness ==
    /\ pc = "getch2"
    /\ startup_attrs = {"ECHO", "ICANON", "ISIG"}
    /\ tty_attrs = {"CS8"}
    /\ term.original = startup_attrs
    /\ screen.attrs = startup_attrs
    /\ pattern_len > 0
    /\ screen.prompt = CurPattern

\* This step is a call of alloc that returned.
AllocReturned == pc = "alloc" /\ ByteRead

\* The offsets of the first n bytes of the block the call returned.
BlockBytes(n) == a_ptr'..(a_ptr' + n - 1)

\* The call lowered the top cursor by size * count and returned the block
\* that lies between the new top cursor and the old one.
CarvedFromTop ==
    /\ a_ptr' = arena'.end
    /\ arena'.end = arena.end - a_size' * a_count'
    /\ arena'.beg = arena.beg
    /\ arena'.end >= arena.beg

\* The call changed neither a cursor nor a byte.
NothingAllocated ==
    /\ arena' = arena
    /\ a_mem' = a_mem
    /\ a_ptr' = arena.end

(* C18 as claimed: a call with count > 0 that returns gives a block of    *)
(* size * count bytes at the new top cursor in which every byte of all    *)
(* count items is zero, whatever the arena held before, and lowers the    *)
(* top cursor by size * count; a call with count = 0 changes no cursor    *)
(* and no byte; the top cursor is never below the bottom cursor.          *)
C18_EveryItemZeroed ==
    /\ [](arena.beg <= arena.end)
    /\ [][(AllocReturned /\ a_count' > 0)
            => /\ CarvedFromTop
               /\ \A off \in BlockBytes(a_size' * a_count') :
                     a_mem'[off + 1] = 0]_vars
    /\ [][(AllocReturned /\ a_count' = 0) => NothingAllocated]_vars

(* C18: a call with count > 0 that returns gives a block of size * count  *)
(* bytes at the new top cursor and lowers the top cursor by size * count; *)
(* every byte of the first item of the block is zero and every other byte *)
(* of the arena, the other count - 1 items included, holds what it held   *)
(* before the call.  A call with count = 0 changes no cursor and no byte, *)
(* a call that takes the fatal path changes neither, and the top cursor   *)
(* is never below the bottom cursor.                                      *)
C18_FirstItemZeroed ==
    /\ [](arena.beg <= arena.end)
    /\ [][(AllocReturned /\ a_count' > 0)
            => /\ CarvedFromTop
               /\ \A off \in 0..(MaxArena - 1) :
                     a_mem'[off + 1] = IF off \in BlockBytes(a_size') THEN 0
                                       ELSE a_mem[off + 1]]_vars
    /\ [][(AllocReturned /\ a_count' = 0) => NothingAllocated]_vars
    /\ [][(pc = "alloc" /\ ~ByteRead)
            => /\ a_count' > (arena.end - arena.beg) \div a_size'
               /\ arena' = arena
               /\ a_mem' = a_mem]_vars

\* A block of two 2-byte items: the first zeroed, the second still holding
\* what the arena held.
C18_Witness ==
    /\ pc = "alloc"
    /\ a_size = 2
    /\ a_count = 2
    /\ a_ptr = arena.end
    /\ a_mem[a_ptr + 1] = 0
    /\ a_mem[a_ptr + 2] = 0
    /\ a_mem[a_ptr + 3] = Garbage
    /\ a_mem[a_ptr + 4] = Garbage

(* C19: the writes to the pattern buffer are at indices pattern_len       *)
(* (before and after the key), all inside 0 .. PATTERN_MAX - 1; at every  *)
(* key read, and so at the draw before it, 0 <= pattern_len <=            *)
(* PATTERN_MAX - 1, pattern[pattern_len] is NUL and no earlier byte is,   *)
(* so the string handed to the matcher and shown in the prompt is exactly *)
(* the characters typed and not yet erased: a printable key appends its   *)
(* byte, Backspace removes the last one, no other key changes it.         *)
C19_PatternBuffer ==
    /\ [](Waiting => /\ Len(pattern) = PATTERN_MAX
                     /\ pattern_len \in 0..(PATTERN_MAX - 1)
                     /\ pattern[pattern_len + 1] = NUL
                     /\ \A k \in 1..pattern_len : ch_isvalid(pattern[k])
                     /\ PatternArg(pattern, pattern_len) = CurPattern
                     /\ screen.prompt = CurPattern
                     /\ MatchesAreTheFilter)
    /\ [][Waiting
            => /\ pattern_len' \in 0..(PATTERN_MAX - 1)
               /\ \A k \in 1..PATTERN_MAX :
                     pattern'[k] # pattern[k]
                        => k - 1 \in {pattern_len, pattern_len'}]_vars
    /\ [][(PrintableRead /\ Waiting')
            => CurPattern' = Append(CurPattern, ch')]_vars
    /\ [][(BackspaceRead /\ Waiting')
            => CurPattern' = SubSeq(CurPattern, 1, pattern_len - 1)]_vars
    /\ [][(Waiting /\ Waiting' /\ ~PrintableRead /\ ~BackspaceRead)
            => /\ CurPattern' = CurPattern
               /\ pattern' = pattern]_vars

\* Two characters typed and one erased: the terminator of the longer
\* pattern is still in the buffer behind the new one.
C19_Witness ==
    /\ pc = "getch0"
    /\ ch = KEY_BACKSPACE
    /\ pattern_len = 1
    /\ pattern[1] = LOWER_A
    /\ pattern[2] = NUL
    /\ pattern[3] = NUL
    /\ screen.prompt = <<LOWER_A>>

\* This step read a key that edits the pattern, and the loop goes on.
EditRead == (PrintableRead \/ BackspaceRead) /\ Waiting'

(* C20 as claimed: after a key that appends or removes a pattern          *)
(* character, selected equals min(previous selected, new matches_len - 1) *)
(* when the new match list is non-empty, and selected comes to index 0    *)
(* from another value only when the match list was empty before the key.  *)
C20_SelectedIsMinOfPrevious ==
    /\ [][(EditRead /\ e'.matches_len > 0)
            => e'.selected = Min(e.selected, e'.matches_len - 1)]_vars
    /\ [][(EditRead /\ e'.selected = 0 /\ e.selected # 0)
            => e.matches_len = 0]_vars

(* C20: a key that appends or removes a pattern character does not reset  *)
(* selected: the redraw clamps the previous value.  When the new match    *)
(* list is non-empty, selected is min(previous selected,                  *)
(* new matches_len - 1) if the previous selected was not negative, and 0  *)
(* if it was -1; it is lowered only onto the last match, which is index 0 *)
(* when one match is left.  When the new match list is empty, selected is *)
(* -1, or 0 if it was -1 before.  selected is -1 only while the match     *)
(* list is empty.                                                         *)
C20_SelectedSurvivesEdits ==
    /\ [](Waiting => /\ e.selected >= -1
                     /\ e.selected = -1 => e.matches_len = 0)
    /\ [][(EditRead /\ e'.matches_len > 0)
            => /\ e'.selected = IF e.selected < 0 THEN 0
                                ELSE Min(e.selected, e'.matches_len - 1)
               /\ e'.selected < e.selected
                     => e'.selected = e'.matches_len - 1]_vars
    /\ [][(EditRead /\ e'.matches_len = 0)
            => e'.selected = IF e.selected < 0 THEN 0 ELSE -1]_vars

\* A character typed, the second of the two matches left selected with
\* Down, and the character erased: three matches again and the selection
\* still on the second.
C20_Witness ==
    /\ pc = "getch0"
    /\ ch = KEY_BACKSPACE
    /\ pattern_len = 0
    /\ pattern[2] = NUL
    /\ e.entries_len = 3
    /\ e.matches_len = 3
    /\ e.selected = 1

====
